---- MODULE Spec2Model ----
(***************************************************************************)
(* The coarse-graining network layers of RSMI-NE (cg_layers.py):           *)
(* Conv2DSingle, Conv3DSingle and CoarseGrainer, with the Gumbel-softmax   *)
(* temperature schedule (global_step, tau).                                *)
(*                                                                         *)
(* Numbers.  Python floats (float64) and np.float32 values are modelled as *)
(* dyadic rationals m * 2^e, plus inf, -inf and nan.  np.float32(x) rounds *)
(* to a 24-bit significand, ties to even, as IEEE 754 does.  Relaxation    *)
(* rates are taken in units of ln 2, so that np.exp(-r*step) is the exact  *)
(* power of two 2^(-r*step); float64 arithmetic is exact on the values the *)
(* model draws (their significands stay far below 53 bits).                *)
(*                                                                         *)
(* Tensors.  A tensor is its shape; a weight array is its shape and an     *)
(* identifier of its contents.                                             *)
(***************************************************************************)
EXTENDS Integers, Sequences, FiniteSets, TLC

VARIABLES
  args,       \* the arguments CoarseGrainer.__init__ was called with
  built,      \* "ok", or the exception __init__ ended with
  self,       \* the attributes of the constructed object
  ret,        \* the outcome of the most recent operation on the object
  lastSet,    \* <<>> before any global_step assignment, else <<step assigned last>>
  lastTau,    \* <<>>, or <<[at, val]>>: the most recent successful read of tau
  prevTau     \* the successful read of tau before lastTau

vars == <<args, built, self, ret, lastSet, lastTau, prevTau>>

(***************************************************************************)
(* Bounds of the model.                                                    *)
(***************************************************************************)
MaxStep == 2      \* steps assigned: -1 .. MaxStep, and one beyond 2^24
MaxRate == 1      \* relaxation rates: -1 .. MaxRate (units of ln 2)
MaxTemp == 1      \* integer temperatures: -1 .. MaxTemp
MaxAxes == 4      \* block shapes have 1 .. MaxAxes axes
MaxHidden == 2    \* num_hiddens: 1 .. MaxHidden
MaxChan == 2      \* trailing component axis of V: 1 .. MaxChan
MaxBatch == 1     \* batch size of V: 1 .. MaxBatch
MaxArrayId == 2   \* contents of a weight array: 1 .. MaxArrayId

(***************************************************************************)
(* Number formats.                                                         *)
(***************************************************************************)
F32Bits == 24        \* significand of np.float32
F32MaxTop == 128     \* np.float32 values lie below 2^128
F32MinExp == -149    \* the smallest np.float32 subnormal is 2^-149
F64MaxTop == 1024    \* float64 values lie below 2^1024
F64MinExp == -1074   \* the smallest float64 subnormal is 2^-1074

None == <<>>
Some(v) == <<v>>

Zero == [c |-> "fin", m |-> 0, e |-> 0]
Inf == [c |-> "inf", m |-> 0, e |-> 0]
NegInf == [c |-> "ninf", m |-> 0, e |-> 0]
NaN == [c |-> "nan", m |-> 0, e |-> 0]

Abs(n) == IF n < 0 THEN -n ELSE n
Sgn(n) == IF n < 0 THEN -1 ELSE IF n = 0 THEN 0 ELSE 1

RECURSIVE BitLen(_)
BitLen(n) == IF n = 0 THEN 0 ELSE 1 + BitLen(n \div 2)

RECURSIVE Norm(_, _)
\* the dyadic m * 2^e, with m odd (or zero)
Norm(m, e) ==
  IF m = 0 THEN Zero
  ELSE IF m % 2 = 0 THEN Norm(m \div 2, e + 1)
  ELSE [c |-> "fin", m |-> m, e |-> e]

FromInt(n) == Norm(n, 0)

\* x lies in [2^(Top-1), 2^Top) in magnitude
Top(x) == BitLen(Abs(x.m)) + x.e

IsFin(x) == x.c = "fin"

SignOf(x) ==
  CASE x.c = "inf" -> 1
    [] x.c = "ninf" -> -1
    [] x.c = "nan" -> 0
    [] OTHER -> Sgn(x.m)

MagLt(a, b) ==
  \/ Top(a) < Top(b)
  \/ /\ Top(a) = Top(b)
     /\ LET lo == IF a.e < b.e THEN a.e ELSE b.e
        IN  Abs(a.m) * 2^(a.e - lo) < Abs(b.m) * 2^(b.e - lo)

\* a < b on floats: false whenever one side is nan
Lt(a, b) ==
  /\ a.c # "nan" /\ b.c # "nan"
  /\ \/ SignOf(a) < SignOf(b)
     \/ /\ SignOf(a) = SignOf(b) /\ IsFin(a) /\ IsFin(b)
        /\ \/ SignOf(a) = 1 /\ MagLt(a, b)
           \/ SignOf(a) = -1 /\ MagLt(b, a)
     \/ SignOf(a) = 1 /\ SignOf(b) = 1 /\ IsFin(a) /\ b.c = "inf"
     \/ SignOf(a) = -1 /\ SignOf(b) = -1 /\ a.c = "ninf" /\ IsFin(b)

Leq(a, b) == a.c # "nan" /\ b.c # "nan" /\ ~Lt(b, a)

\* the sign of the exponent lost
NotNegated(x) == x

\* -x
Neg(x) ==
  CASE x.c = "inf" -> NegInf
    [] x.c = "ninf" -> Inf
    [] x.c = "nan" -> NaN
    [] OTHER -> [x EXCEPT !.m = -x.m]

\* the float64 nearest a finite dyadic: overflow to +-inf, underflow to 0
F64Range(x) ==
  IF x.m = 0 THEN Zero
  ELSE IF Top(x) > F64MaxTop THEN (IF x.m > 0 THEN Inf ELSE NegInf)
  ELSE IF Top(x) <= F64MinExp THEN Zero
  ELSE x

\* a * b in float64
Mul(a, b) ==
  IF a.c = "nan" \/ b.c = "nan" THEN NaN
  ELSE IF IsFin(a) /\ IsFin(b) THEN F64Range(Norm(a.m * b.m, a.e + b.e))
  ELSE IF SignOf(a) * SignOf(b) = 0 THEN NaN
  ELSE IF SignOf(a) * SignOf(b) > 0 THEN Inf ELSE NegInf

\* np.exp(x) for x an integer multiple of ln 2
NpExp(x) ==
  CASE x.c = "nan" -> NaN
    [] x.c = "inf" -> Inf
    [] x.c = "ninf" -> Zero
    [] OTHER ->
         IF Top(x) > BitLen(F64MaxTop - F64MinExp)
         THEN (IF x.m > 0 THEN Inf ELSE Zero)
         ELSE F64Range(Norm(1, x.m * 2^x.e))

\* f(x), with x evaluated once
At(f(_), x) == CHOOSE v \in {f(y) : y \in {x}} : TRUE

\* min taken where max is meant
PyMin(a, b) == IF Lt(a, b) THEN a ELSE b

\* Python's max(a, b): b when b > a, else a
PyMax(a, b) == IF Lt(a, b) THEN b ELSE a

\* the exponent of the last significand bit np.float32 keeps for x
F32Quantum(x) ==
  IF Top(x) - F32Bits > F32MinExp THEN Top(x) - F32Bits ELSE F32MinExp

\* x rounded to a multiple of 2^q: to nearest, ties to even
RoundTo(x, q) ==
  IF q <= x.e THEN x
  ELSE IF q - x.e > BitLen(Abs(x.m)) THEN Zero
  ELSE LET hi == Abs(x.m) \div 2^(q - x.e)
           lo == Abs(x.m) % 2^(q - x.e)
           half == 2^(q - x.e - 1)
           up == lo > half \/ (lo = half /\ hi % 2 = 1)
       IN  Norm(Sgn(x.m) * (hi + (IF up THEN 1 ELSE 0)), q)

\* np.float32 overflow: magnitudes of 2^128 and more become +-inf
F32Range(x) ==
  IF x.m # 0 /\ Top(x) > F32MaxTop THEN (IF x.m > 0 THEN Inf ELSE NegInf) ELSE x

\* np.float32(x)
NpFloat32(x) ==
  IF ~IsFin(x) \/ x.m = 0 THEN x
  ELSE At(F32Range, At(LAMBDA q : RoundTo(x, q), F32Quantum(x)))

(***************************************************************************)
(* Tensors and layers.                                                     *)
(***************************************************************************)
BlockSide == 2       \* every axis of the visible block has this many sites

NoArray == [kind |-> "None", shape |-> <<>>, val |-> 0]
NdArray(shape, val) == [kind |-> "ndarray", shape |-> shape, val |-> val]

\* the outcome of a layer: the shape it returns, or the exception it raises
\* ("EinsumError" stands for tf.einsum refusing operands whose rank or sizes
\* do not fit its equation);
\* temp is the temperature the sampling layer drew at, if it ran
Ok(shape) == [err |-> "", shape |-> shape, temp |-> None]
Raise(e) == [err |-> e, shape |-> <<>>, temp |-> None]

RECURSIVE Prod(_, _)
\* the product of the entries of s from index i on
Prod(s, i) == IF i > Len(s) THEN 1 ELSE s[i] * Prod(s, i + 1)

\* Conv2DSingle.__init__: the layer, holding its weights ws;
\* rnd is what tf.random_normal_initializer draws
Conv2DSingleInit(hidden_dim, input_shape, init_rule, rnd) ==
  LET init == IF init_rule.kind = "ndarray"
              THEN init_rule
              ELSE NdArray(input_shape \o <<hidden_dim>>, rnd)
  IN  [layer |-> "Conv2DSingle", ws |-> init]

\* Conv3DSingle.__init__
Conv3DSingleInit(hidden_dim, input_shape, rnd) ==
  [layer |-> "Conv3DSingle", ws |-> NdArray(input_shape \o <<hidden_dim>>, rnd)]

\* the contraction summing over the component axis too: 'tijk,ijs->ts'
Conv2DSingleCallSummed(ws, inputs) ==
  IF Len(inputs) # 4 \/ Len(ws.shape) # 3 THEN Raise("EinsumError")
  ELSE IF inputs[2] # ws.shape[1] \/ inputs[3] # ws.shape[2]
  THEN Raise("EinsumError")
  ELSE Ok(<<inputs[1], ws.shape[3]>>)

\* tf.einsum('tijk,ijs->tsk', inputs, ws)
Conv2DSingleCall(ws, inputs) ==
  IF Len(inputs) # 4 \/ Len(ws.shape) # 3 THEN Raise("EinsumError")
  ELSE IF inputs[2] # ws.shape[1] \/ inputs[3] # ws.shape[2]
  THEN Raise("EinsumError")
  ELSE Ok(<<inputs[1], ws.shape[3], inputs[4]>>)

\* tf.einsum('tijkl,ijks->tsl', inputs, ws)
Conv3DSingleCall(ws, inputs) ==
  IF Len(inputs) # 5 \/ Len(ws.shape) # 4 THEN Raise("EinsumError")
  ELSE IF inputs[2] # ws.shape[1] \/ inputs[3] # ws.shape[2] \/ inputs[4] # ws.shape[3]
  THEN Raise("EinsumError")
  ELSE Ok(<<inputs[1], ws.shape[4], inputs[5]>>)

\* tfkl.Flatten: every axis after the batch axis collapsed into one
Flatten(x) == <<x[1], Prod(x, 2)>>

Stage(layer, arg) == [layer |-> layer, arg |-> arg]

(***************************************************************************)
(* CoarseGrainer.__init__                                                  *)
(***************************************************************************)
\* lines 127-130: the linear stage, chosen by the number of axes of ll
LinearStage(ll, num_hiddens, init_rule, rnd) ==
  IF Len(ll) = 2 THEN Some(Conv2DSingleInit(num_hiddens, ll, init_rule, rnd))
  ELSE IF Len(ll) = 3 THEN Some(Conv3DSingleInit(num_hiddens, ll, rnd))
  ELSE None

\* the annealing parameters kept whether or not h_embed is set
AnnealAttrsAlways(a) ==
  [r |-> Some(a.relaxation_rate), min_tau |-> Some(a.min_temperature),
   init_tau |-> Some(a.init_temperature)]

\* lines 135-137: the annealing parameters kept on the object
AnnealAttrs(a) ==
  IF a.h_embed
  THEN [r |-> Some(a.relaxation_rate), min_tau |-> Some(a.min_temperature),
        init_tau |-> Some(a.init_temperature)]
  ELSE [r |-> None, min_tau |-> None, init_tau |-> None]

\* lines 139-171: the embedder, if one is made
Embedder(Nq, use_logits, use_probs) ==
  LET dist == IF Nq = None THEN "RelaxedBernoulli" ELSE "RelaxedOneHotCategorical"
  IN  IF use_probs THEN Some(Stage("Lambda", <<dist, "probs">>))
      ELSE IF use_logits THEN Some(Stage("Lambda", <<dist, "logits">>))
      ELSE None

\* lines 144-147, 152-154, 161-164, 169-171, 176-177: the layers handed to
\* tf.keras.Sequential, given the linear stage cg
Stages(a, cg, emb) ==
  IF a.h_embed
  THEN IF a.use_probs
       THEN <<Stage(cg.layer, <<>>), Stage("Activation", <<"softmax">>),
              Stage("Flatten", <<>>), emb>>
       ELSE <<Stage(cg.layer, <<>>), Stage("Flatten", <<>>), emb>>
  ELSE <<Stage(cg.layer, <<>>), Stage("Activation", <<a.conv_activation>>),
         Stage("Flatten", <<>>)>>

\* a counter that starts one step late
InitialStepOne == FromInt(1)

\* line 125: the step of a fresh object
InitialStep == FromInt(0)

\* the whole constructor: [status, self]
CoarseGrainerInit(a, rnd) ==
  LET cg == LinearStage(a.ll, a.num_hiddens, a.init_rule, rnd)
      an == AnnealAttrs(a)
      emb == IF a.h_embed THEN Embedder(a.Nq, a.use_logits, a.use_probs) ELSE None
      s1 == [Nq |-> a.Nq, _global_step |-> InitialStep, coarse_grainer |-> cg,
             method |-> IF a.h_embed THEN "pseudo-categorical sampling"
                        ELSE "convolved variables",
             r |-> an.r, min_tau |-> an.min_tau, init_tau |-> an.init_tau,
             embedder |-> emb, _Lambda |-> None]
  IN  IF a.h_embed /\ emb = None
      THEN [status |-> "ok", self |-> s1]              \* no branch taken in 139-171
      ELSE IF cg = None
      THEN [status |-> "AttributeError", self |-> s1]  \* self.coarse_grainer is unset
      ELSE [status |-> "ok",
            self |-> [s1 EXCEPT !._Lambda =
                        Some(Stages(a, cg[1], IF emb = None THEN Stage("", <<>>) ELSE emb[1]))]]

(***************************************************************************)
(* global_step and tau                                                     *)
(***************************************************************************)
\* a setter that never lets the counter go back
GlobalStepSetForward(old, step) ==
  IF Lt(step, old) THEN old ELSE At(NpFloat32, step)

\* the global_step setter (line 204): the value stored for step
GlobalStepSet(old, step) == At(NpFloat32, step)

\* the tau property (lines 213-214): [err, val]
Tau(s) ==
  IF s.min_tau = None \/ s.init_tau = None \/ s.r = None
  THEN [err |-> "AttributeError", val |-> None]
  ELSE LET decay == At(NpExp, Mul(Neg(s.r[1]), s._global_step))
           relaxed == At(LAMBDA e : Mul(s.init_tau[1], e), decay)
           floored == At(LAMBDA t : PyMax(s.min_tau[1], t), relaxed)
       IN  [err |-> "", val |-> Some(At(NpFloat32, floored))]

(***************************************************************************)
(* CoarseGrainer.call                                                      *)
(***************************************************************************)
\* the sampling layer on a tensor of shape x: a relaxed distribution at
\* temperature self.tau, one sample of the shape of its parameters
Sample(t, x) ==
  IF t.err # "" THEN Raise(t.err) ELSE [err |-> "", shape |-> x, temp |-> t.val]

\* one layer of the Sequential applied to a tensor of shape x
ApplyStage(s, st, x) ==
  CASE st.layer = "Conv2DSingle" -> Conv2DSingleCall(s.coarse_grainer[1].ws, x)
    [] st.layer = "Conv3DSingle" -> Conv3DSingleCall(s.coarse_grainer[1].ws, x)
    [] st.layer = "Activation" -> Ok(x)
    [] st.layer = "Flatten" -> Ok(Flatten(x))
    [] st.layer = "Lambda" -> At(LAMBDA t : Sample(t, x), Tau(s))
    [] OTHER -> Raise("ValueError")

RECURSIVE RunFrom(_, _, _, _)
\* the layers from the i-th on, applied in turn to the outcome y so far
RunFrom(s, stages, i, y) ==
  IF i > Len(stages) \/ y.err # "" THEN y
  ELSE RunFrom(s, stages, i + 1, ApplyStage(s, stages[i], y.shape))

\* self._Lambda(V), line 188: [err, shape, temp]
CallPipeline(s, V) ==
  IF s._Lambda = None THEN Raise("AttributeError")
  ELSE RunFrom(s, s._Lambda[1], 1, Ok(V))

(***************************************************************************)
(* Inputs.                                                                 *)
(***************************************************************************)
\* steps the training driver assigns; the last one is no np.float32 value
Steps == (-1..MaxStep) \cup {2^F32Bits + 1}
FewSteps == {1}

\* temperatures: small integers, and two float64 values that are no
\* np.float32 values, 1 + 2^-24 (rounds down) and 1 + 3 * 2^-24 (rounds up)
Temps ==
  {FromInt(n) : n \in -1..MaxTemp}
    \cup {Norm(2^F32Bits + 1, -F32Bits), Norm(2^F32Bits + 3, -F32Bits)}

Rates == {FromInt(k) : k \in -1..MaxRate}

BlockShapes == {[i \in 1..n |-> BlockSide] : n \in 1..MaxAxes}

\* input batches for a block shape: with and without a trailing component axis
Batches(ll) ==
  {<<b>> \o ll : b \in 1..MaxBatch}
    \cup {<<b>> \o ll \o <<k>> : b \in 1..MaxBatch, k \in 1..MaxChan}

ArgsOf(lls, hiddens, acts, nqs, embeds, vals, rates, temps, logits, probs) ==
  UNION {
    [ll : {ll}, num_hiddens : {h}, conv_activation : acts, Nq : nqs,
     h_embed : embeds,
     init_rule : {NoArray} \cup {NdArray(ll \o <<h>>, v) : v \in vals},
     relaxation_rate : rates, min_temperature : temps, init_temperature : temps,
     use_logits : logits, use_probs : probs] : ll \in lls, h \in hiddens}

\* every configuration of the pipeline, at one annealing schedule
BuildArgs ==
  ArgsOf(BlockShapes, 1..MaxHidden, {"tanh", "relu"},
         {None} \cup {Some(n) : n \in 2..MaxChan}, BOOLEAN, 1..MaxArrayId,
         {FromInt(1)}, {FromInt(1)}, BOOLEAN, BOOLEAN)

\* every annealing schedule, at one configuration of the pipeline
AnnealArgs ==
  ArgsOf({<<BlockSide, BlockSide>>}, {1}, {"tanh"}, {None}, BOOLEAN, {},
         Rates, Temps, {TRUE}, {FALSE})

(***************************************************************************)
(* The state machine: construction, then any sequence of operations.       *)
(***************************************************************************)
NoRet == [op |-> "", err |-> "", val |-> None, out |-> <<>>, inp |-> <<>>]

CurStep == IF lastSet = None THEN 0 ELSE lastSet[1]

InitOf(argset, rnds) ==
  \E a \in argset, rnd \in rnds :
    LET c == CoarseGrainerInit(a, rnd)
    IN  /\ args = a
        /\ built = c.status
        /\ self = c.self
        /\ ret = NoRet
        /\ lastSet = None
        /\ lastTau = None
        /\ prevTau = None

\* cg.global_step = step
SetGlobalStep(steps) ==
  /\ built = "ok"
  /\ \E step \in steps :
       /\ self' = [self EXCEPT
                     !._global_step = GlobalStepSet(self._global_step, FromInt(step))]
       /\ lastSet' = Some(step)
  /\ ret' = [NoRet EXCEPT !.op = "set"]
  /\ UNCHANGED <<args, built, lastTau, prevTau>>

\* cg.global_step
GetGlobalStep ==
  /\ built = "ok"
  /\ ret' = [NoRet EXCEPT !.op = "get", !.val = Some(self._global_step)]
  /\ UNCHANGED <<args, built, self, lastSet, lastTau, prevTau>>

\* cg.tau
ReadTau ==
  /\ built = "ok"
  /\ \E t \in {Tau(self)} :
         /\ ret' = [NoRet EXCEPT !.op = "tau", !.err = t.err, !.val = t.val]
         /\ IF t.err = ""
            THEN /\ lastTau' = Some([at |-> CurStep, val |-> t.val[1]])
                 /\ prevTau' = lastTau
            ELSE UNCHANGED <<lastTau, prevTau>>
  /\ UNCHANGED <<args, built, self, lastSet>>

\* cg(V)
Call(batches) ==
  /\ built = "ok"
  /\ \E V \in batches :
       \E y \in {CallPipeline(self, V)} :
         ret' = [NoRet EXCEPT !.op = "call", !.err = y.err, !.out = y.shape,
                              !.inp = V, !.val = y.temp]
  /\ UNCHANGED <<args, built, self, lastSet, lastTau, prevTau>>

Init == InitOf(BuildArgs, 1..MaxArrayId)

Next ==
  \/ SetGlobalStep(FewSteps)
  \/ GetGlobalStep
  \/ ReadTau
  \/ Call(Batches(args.ll))

Spec == Init /\ [][Next]_vars

InitAnneal == InitOf(AnnealArgs, {1})

NextAnneal ==
  \/ SetGlobalStep(Steps)
  \/ GetGlobalStep
  \/ ReadTau
  \/ Call({<<1>> \o args.ll \o <<1>>})

SpecAnneal == InitAnneal /\ [][NextAnneal]_vars

(***************************************************************************)
(* Properties.                                                             *)
(***************************************************************************)
Embedded == built = "ok" /\ args.h_embed
TauRead == ret.op = "tau"
TauValue == ret.op = "tau" /\ ret.err = ""

\* max(min_temperature, init_temperature * exp(-relaxation_rate * step)),
\* as the constructor's arguments give it, before any rounding to np.float32
Schedule(step) ==
  PyMax(args.min_temperature,
        Mul(args.init_temperature, NpExp(Mul(Neg(args.relaxation_rate), step))))

\* C1, as claimed: with embedding enabled and a step >= 0 assigned, a read of
\* tau returns a value that is not below min_temperature.
C1_TauNotBelowMin ==
  (Embedded /\ TauRead /\ CurStep >= 0)
    => ret.err = "" /\ Leq(args.min_temperature, ret.val[1])

\* C1, amended: with embedding enabled and a step >= 0 assigned, a read of tau
\* returns a value that is not below min_temperature rounded to np.float32.
C1_TauNotBelowFloat32Min ==
  (Embedded /\ TauRead /\ CurStep >= 0)
    => ret.err = "" /\ Leq(NpFloat32(args.min_temperature), ret.val[1])

\* a step > 0 was assigned, tau was read at the floor, and the floor returned
\* is the np.float32 next to a min_temperature that is no np.float32 value
C1_Witness ==
  /\ Embedded /\ TauValue /\ lastSet # None /\ CurStep > 0
  /\ NpFloat32(args.min_temperature) # args.min_temperature
  /\ ret.val[1] = NpFloat32(args.min_temperature)
  /\ Lt(Mul(args.init_temperature, NpExp(Mul(Neg(args.relaxation_rate), self._global_step))),
        args.min_temperature)

SameSign == SignOf(args.relaxation_rate) * SignOf(args.init_temperature) >= 0

C3_NoStaleness ==
  built = "ok"
    => /\ ret.op = "get" => ret.val = Some(FromInt(CurStep))
       /\ (args.h_embed /\ TauRead)
            => ret.err = "" /\ ret.val = Some(Schedule(FromInt(CurStep)))

\* C3, amended: the getter returns the step assigned last rounded to
\* np.float32 and, with embedding enabled, a read of tau returns the
\* np.float32 rounding of max(min_temperature, init_temperature *
\* exp(-relaxation_rate * s)) at s the step assigned last rounded to
\* np.float32, also when that step is smaller than the one before.
C3_NoStalenessFloat32 ==
  built = "ok"
    => /\ ret.op = "get" => ret.val = Some(NpFloat32(FromInt(CurStep)))
       /\ (args.h_embed /\ TauRead)
            => /\ ret.err = ""
               /\ ret.val = Some(NpFloat32(Schedule(NpFloat32(FromInt(CurStep)))))

\* tau was read, a smaller step was assigned, and tau read again gave
\* another value
C3_Witness ==
  /\ Embedded /\ TauValue /\ prevTau # None /\ lastSet # None
  /\ CurStep < prevTau[1].at
  /\ ret.val[1] # prevTau[1].val

\* C4, as claimed, read for an object that has a schedule (one built with
\* embedding): before any assignment the step counter is 0 and a read of tau
\* returns init_temperature if init_temperature >= min_temperature, else
\* min_temperature.
C4_InitialTau ==
  (built = "ok" /\ lastSet = None)
    => /\ self._global_step = Zero
       /\ (args.h_embed /\ TauRead)
            => /\ ret.err = ""
               /\ ret.val = Some(IF Leq(args.min_temperature, args.init_temperature)
                                 THEN args.init_temperature
                                 ELSE args.min_temperature)

\* C4, amended: before any assignment the step counter is 0 and, with
\* embedding enabled, a read of tau returns the np.float32 rounding of
\* init_temperature if init_temperature >= min_temperature, else that of
\* min_temperature.
C4_InitialTauFloat32 ==
  (built = "ok" /\ lastSet = None)
    => /\ self._global_step = Zero
       /\ (args.h_embed /\ TauRead)
            => /\ ret.err = ""
               /\ ret.val = Some(NpFloat32(
                              IF Leq(args.min_temperature, args.init_temperature)
                              THEN args.init_temperature
                              ELSE args.min_temperature))

\* tau was read on the fresh object, with init_temperature above
\* min_temperature and no np.float32 value
C4_Witness ==
  /\ Embedded /\ lastSet = None /\ TauValue
  /\ Lt(args.min_temperature, args.init_temperature)
  /\ NpFloat32(args.init_temperature) # args.init_temperature
  /\ ret.val[1] = NpFloat32(args.init_temperature)

\* the stage list the configuration calls for
LinearName == IF Len(args.ll) = 2 THEN "Conv2DSingle" ELSE "Conv3DSingle"
SamplerName == IF args.Nq = None THEN "RelaxedBernoulli" ELSE "RelaxedOneHotCategorical"
StagesClaimed ==
  IF ~args.h_embed
  THEN <<Stage(LinearName, <<>>), Stage("Activation", <<args.conv_activation>>),
         Stage("Flatten", <<>>)>>
  ELSE IF args.use_probs
  THEN <<Stage(LinearName, <<>>), Stage("Activation", <<"softmax">>),
         Stage("Flatten", <<>>), Stage("Lambda", <<SamplerName, "probs">>)>>
  ELSE <<Stage(LinearName, <<>>), Stage("Flatten", <<>>),
         Stage("Lambda", <<SamplerName, "logits">>)>>

\* C5: for a block shape of 2 or 3 axes, the constructed object holds the
\* stage list its configuration calls for: linear map, activation, flatten
\* without embedding; linear map, softmax if and only if probabilities,
\* flatten and the relaxed Bernoulli (Nq unset) or categorical (Nq set)
\* sampler with embedding.
C5_StageList ==
  (built = "ok" /\ Len(args.ll) \in {2, 3}) => self._Lambda = Some(StagesClaimed)

\* C6: for a block shape of 2 or 3 axes and every combination of the flags,
\* a constructed object holds a pipeline, the one its constructor assembled,
\* in every state, and call(V) runs it.
C6_OnePipeline ==
  (built = "ok" /\ Len(args.ll) \in {2, 3})
    => /\ self._Lambda # None
       /\ self._Lambda = CoarseGrainerInit(args, 1).self._Lambda
       /\ ret.op = "call" => ret.err # "AttributeError"

\* C7: a block shape whose number of axes is not 2 or 3 makes construction
\* fail, and no constructed object lacks its linear stage.
C7_BadBlockShapeFails ==
  /\ Len(args.ll) \notin {2, 3} => built # "ok"
  /\ built = "ok" => self.coarse_grainer # None

\* the width the claim gives the output
WidthClaimed ==
  IF args.h_embed /\ args.Nq # None THEN args.num_hiddens * args.Nq[1]
  ELSE args.num_hiddens

C9_InitRuleUsed ==
  (built = "ok" /\ self.coarse_grainer # None /\ args.init_rule.kind = "ndarray")
    => self.coarse_grainer[1].ws = args.init_rule

\* C10: the annealing parameters are on the object exactly when embedding is
\* enabled; without embedding every read of tau ends in an AttributeError and
\* returns no temperature, while the getter returns the counter, which is
\* what the last assignment stored (0 before any).
C10_TauNeedsEmbedding ==
  built = "ok"
    => /\ args.h_embed
            => /\ self.r = Some(args.relaxation_rate)
               /\ self.min_tau = Some(args.min_temperature)
               /\ self.init_tau = Some(args.init_temperature)
       /\ ~args.h_embed
            => /\ self.r = None /\ self.min_tau = None /\ self.init_tau = None
               /\ TauRead => ret.err = "AttributeError" /\ ret.val = None
               /\ lastTau = None
               /\ ret.op = "get" => ret.err = "" /\ ret.val = Some(self._global_step)
               /\ self._global_step = NpFloat32(FromInt(CurStep))

\* without embedding, a step was assigned and tau was then read
C10_Witness ==
  /\ built = "ok" /\ ~args.h_embed /\ lastSet # None /\ CurStep # 0
  /\ TauRead /\ ret.err = "AttributeError"
====
